---- MODULE Spec2Model ----
(***************************************************************************)
(* gobackup-app: the change-detection-to-durable-chunk pipeline and its    *)
(* inverse.  The model covers the metadata catalog (manager.go,            *)
(* file_actions.go), the chunk packer (chunker.go, chunk model), the       *)
(* compression codec, the backup orchestrator (engine.go) and the restore  *)
(* engine.                                                                 *)
(*                                                                         *)
(* File data is a sequence of blocks of one MiB each; lengths, sizes and    *)
(* offsets are in bytes, as in the source.                                 *)
(* The for-range loops of DetectChanges take the address of the loop       *)
(* variable; the model follows the per-iteration semantics of Go >= 1.22.  *)
(***************************************************************************)
EXTENDS Integers, Sequences, FiniteSets, TLC

----------------------------------------------------------------------------
(* Bounds and the universe of inputs *)

\* the tree-relative paths of the watched tree
Paths == {"a.txt", "b.txt"}

\* file contents: 2 and 4 blocks long (2 + 2 fit in one chunk, 2 + 4 do not)
Contents == { <<1, 1>>, <<2, 2, 2, 2>> }

\* the bytes of one block of file data
BlockBytes == 1024 * 1024

\* len(data) in bytes
ByteLen(data) == Len(data) * BlockBytes

\* data[from : from+size], for offsets on block boundaries
ByteRange(data, from, size) ==
  SubSeq(data, (from \div BlockBytes) + 1, (from + size) \div BlockBytes)

\* modification times a file can carry
MTimes == {1, 2}

\* Bounds of Spec: how many times the watched tree is changed, below how many
\* catalogued chunks a full backup still starts (the packer's counter is then
\* at most one more), how many times the backup process is restarted, and how
\* many times a chunk file is deleted or damaged. MaxFaults bounds what goes
\* wrong for the backup process: each restart and each batch of
\* PerformFullBackup that fails on a chunk write or on the catalog save takes
\* one from it
MaxEdits == 2
MaxChunks == 1
MaxFaults == 1
MaxTampers == 1

\* The same bounds for SpecDeep
DeepEdits == 3
DeepChunks == 2
DeepFaults == 1
DeepTampers == 1

\* Current chunk size is 5 MB
ChunkSize == 5 * 1024 * 1024

\* first byte of a gzip stream
GzMagic == 31

EmptyMap == [x \in {} |-> 0]

----------------------------------------------------------------------------
(* Pure functions *)

\* map m with key k bound to v
Put(m, k, v) == [x \in (DOMAIN m) \cup {k} |-> IF x = k THEN v ELSE m[x]]

\* map m without key k
Drop(m, k) == [x \in (DOMAIN m) \ {k} |-> m[x]]

\* SHA-256 as a collision-free digest: the digest names the data
CalculateDataHash(data) == <<"sha256", data>>

\* gzip: a framed, reversible encoding of the raw bytes (the frame is counted
\* as one block)
Compress(data) == <<GzMagic>> \o data

\* gunzip: fails on a stream that does not start with the gzip header
Decompress(bytes) ==
  IF Len(bytes) > 0 /\ bytes[1] = GzMagic
    THEN [ok |-> TRUE, data |-> Tail(bytes)]
    ELSE [ok |-> FALSE, data |-> <<>>]

\* the decimal digits of n >= 0, most significant first
RECURSIVE DecimalDigits(_)
DecimalDigits(n) == IF n < 10 THEN <<n>> ELSE Append(DecimalDigits(n \div 10), n % 10)

\* fmt.Sprintf("chunk_%06d.gz", id): %0kd prints every digit of n and pads
\* with zeros on the left up to k digits; a wider number is never cut
Digits(n, k) ==
    LET d == DecimalDigits(n)
    IN  IF Len(d) >= k THEN d ELSE [i \in 1..(k - Len(d)) |-> 0] \o d
ChunkFilename(id) == <<"chunk_">> \o Digits(id, 6) \o <<".gz">>

\* all orders (sequences without repetition) of the finite set S
Orders(S) == { s \in [1..Cardinality(S) -> S] : \A i, j \in DOMAIN s : i # j => s[i] # s[j] }

----------------------------------------------------------------------------
(* Data model (pkg/models/types.go) *)

\* time.Time of a file's modification time: the instant and the *Location
\* the value carries (== on time.Time compares both)
FileModTime(t) == [t |-> t, loc |-> "Local"]

\* the zero models.FileInfo
NilInfo ==
  [Path |-> "", Size |-> 0, ModTime |-> [t |-> 0, loc |-> "UTC"],
   Hash |-> <<>>, ChunkRefs |-> <<>>, IsDeleted |-> FALSE]

\* models.FileChange; HasInfo is FileInfo # nil
FileChange(path, op, hasInfo, info) ==
  [Path |-> path, Operation |-> op, HasInfo |-> hasInfo, FileInfo |-> info]

\* a fresh catalog, as NewManager builds it
NewManager == [Files |-> EmptyMap, Chunks |-> <<>>]

----------------------------------------------------------------------------
(* The watched tree: a map from the paths that exist to                   *)
(* [content, mtime, readable]; an unreadable file can be stat'd, not      *)
(* opened.                                                                *)

FileStates == [content : Contents, mtime : MTimes, readable : BOOLEAN]

\* what the walk of DetectChanges records for a path it could hash
WalkInfo(fs, p) ==
  [Path |-> p, Size |-> ByteLen(fs[p].content), ModTime |-> FileModTime(fs[p].mtime),
   Hash |-> CalculateDataHash(fs[p].content), ChunkRefs |-> <<>>,
   IsDeleted |-> FALSE]

\* currentFiles of DetectChanges: a file whose hash cannot be computed is
\* left out of the walk's result
CurrentFiles(fs) == { p \in DOMAIN fs : fs[p].readable }

\* reconcile: the change list, as a set (the two loops range over maps, so
\* the slice's order is not fixed)
DetectChanges(files, fs) ==
  LET cur == CurrentFiles(fs) IN
    { FileChange(p, "MODIFY", TRUE, WalkInfo(fs, p)) :
        p \in { q \in cur \cap DOMAIN files :
                  /\ ~files[q].IsDeleted
                  /\ \/ files[q].Hash # WalkInfo(fs, q).Hash
                     \/ files[q].ModTime # WalkInfo(fs, q).ModTime } }
    \cup
    { FileChange(p, "CREATE", TRUE, WalkInfo(fs, p)) : p \in cur \ DOMAIN files }
    \cup
    { FileChange(p, "DELETE", FALSE, NilInfo) :
        p \in { q \in DOMAIN files : ~files[q].IsDeleted /\ q \notin cur } }

----------------------------------------------------------------------------
(* Catalog mutations (file_actions.go) *)

\* a variant of UpdateFileInfo that leaves the catalog as it was
UpdateFileInfoKeepsOld(files, path, info) == files

UpdateFileInfo(files, path, info) == Put(files, path, info)

\* a variant of MarkFileDeleted that removes the record from the map
MarkFileDeletedDropsRecord(files, path) ==
  [p \in DOMAIN files \ {path} |-> files[p]]

\* a variant of MarkFileDeleted that leaves the record live
MarkFileDeletedKeepsLive(files, path) == files

MarkFileDeleted(files, path) ==
  IF path \in DOMAIN files
    THEN Put(files, path, [files[path] EXCEPT !.IsDeleted = TRUE])
    ELSE files

\* a variant of AddChunk that does not record the chunk
AddChunkForgets(chunks, chunk) == chunks

AddChunk(chunks, chunk) == Append(chunks, chunk)

----------------------------------------------------------------------------
(* Chunk packer (chunker.go) *)

\* the packer-local counter a new Chunker starts from
NewChunker == 1

EmptyChunk(id) == [ID |-> id, Data |-> <<>>, Files |-> <<>>, Hash |-> <<>>]

Seal(chunk) == [chunk EXCEPT !.Hash = CalculateDataHash(chunk.Data)]

\* a variant of the loop of CreateChunks that never seals the current chunk
RECURSIVE PackLoopNeverSeals(_, _, _)
PackLoopNeverSeals(files, st, fs) ==
  IF files = <<>> THEN st
  ELSE
    LET p == Head(files) IN
    IF p \notin DOMAIN fs \/ ~fs[p].readable
      THEN PackLoopNeverSeals(Tail(files), st, fs)
      ELSE PackLoopNeverSeals(Tail(files),
             [st EXCEPT
                !.currentChunk.Files =
                    Append(@, [Path   |-> p,
                               Offset |-> ByteLen(st.currentChunk.Data),
                               Size   |-> ByteLen(fs[p].content),
                               Hash   |-> CalculateDataHash(fs[p].content)]),
                !.currentChunk.Data = @ \o fs[p].content,
                !.currentSize = @ + ByteLen(fs[p].content)],
             fs)

\* the loop of CreateChunks over the remaining files; st holds chunks,
\* currentChunk, currentSize and the counter c.chunkID
RECURSIVE PackLoop(_, _, _)
PackLoop(files, st, fs) ==
  IF files = <<>> THEN st
  ELSE
    LET p == Head(files) IN
    IF p \notin DOMAIN fs THEN PackLoop(Tail(files), st, fs)  \* os.Stat failed
    ELSE
      LET size == ByteLen(fs[p].content)
          st1  == IF st.currentSize + size > ChunkSize /\ st.currentChunk.Files # <<>>
                    THEN [chunks       |-> Append(st.chunks, Seal(st.currentChunk)),
                          currentChunk |-> EmptyChunk(st.chunkID),
                          currentSize  |-> 0,
                          chunkID      |-> st.chunkID + 1]
                    ELSE st
      IN
      IF ~fs[p].readable THEN PackLoop(Tail(files), st1, fs)  \* os.ReadFile failed
      ELSE
        PackLoop(Tail(files),
                 [st1 EXCEPT
                    !.currentChunk.Files =
                        Append(@, [Path   |-> p,
                                   Offset |-> ByteLen(st1.currentChunk.Data),
                                   Size   |-> size,
                                   Hash   |-> CalculateDataHash(fs[p].content)]),
                    !.currentChunk.Data = @ \o fs[p].content,
                    !.currentSize = @ + size],
                 fs)

\* CreateChunks: [chunks, chunkID], the chunks and the counter afterwards
CreateChunks(files, chunkID, fs) ==
  LET st == PackLoop(files,
                     [chunks |-> <<>>, currentChunk |-> EmptyChunk(chunkID),
                      currentSize |-> 0, chunkID |-> chunkID + 1],
                     fs)
  IN [chunks  |-> IF st.currentChunk.Files # <<>>
                    THEN Append(st.chunks, Seal(st.currentChunk))
                    ELSE st.chunks,
      chunkID |-> st.chunkID]

\* a variant of ExtractFileFromChunk that does not verify the hash
ExtractFileUnverified(chunkData, fileInfo) ==
  IF fileInfo.Offset + fileInfo.Size > ByteLen(chunkData)
    THEN [ok |-> FALSE, err |-> "boundary", data |-> <<>>]
    ELSE [ok |-> TRUE, err |-> "",
          data |-> ByteRange(chunkData, fileInfo.Offset, fileInfo.Size)]

\* ExtractFileFromChunk: the file's byte range of a chunk, verified
ExtractFileFromChunk(chunkData, fileInfo) ==
  IF fileInfo.Offset + fileInfo.Size > ByteLen(chunkData)
    THEN [ok |-> FALSE, err |-> "boundary", data |-> <<>>]
    ELSE LET data == ByteRange(chunkData, fileInfo.Offset, fileInfo.Size)
         IN IF CalculateDataHash(data) # fileInfo.Hash
              THEN [ok |-> FALSE, err |-> "hash", data |-> <<>>]
              ELSE [ok |-> TRUE, err |-> "", data |-> data]

----------------------------------------------------------------------------
(* Backup orchestrator (engine.go) *)

\* the models.ChunkInfo createBackupChunks records for a written chunk
ChunkInfoOf(chunk) ==
  [ID             |-> chunk.ID,
   Filename       |-> ChunkFilename(chunk.ID),
   Size           |-> ByteLen(chunk.Data),
   Hash           |-> chunk.Hash,
   CompressedSize |-> ByteLen(Compress(chunk.Data))]

\* "Update file info with chunk references": the inner loop over chunk.Files
RECURSIVE AddChunkRefs(_, _, _)
AddChunkRefs(files, chunkFilesList, id) ==
  IF chunkFilesList = <<>> THEN files
  ELSE
    LET relPath == Head(chunkFilesList).Path IN
    AddChunkRefs(
      IF relPath \in DOMAIN files
        THEN UpdateFileInfo(files, relPath,
               [files[relPath] EXCEPT !.ChunkRefs = Append(@, id)])
        ELSE files,
      Tail(chunkFilesList), id)

\* the loop of createBackupChunks over the packed chunks, from chunk i on.
\* st is [files, chunks, store, err]; os.WriteFile of chunk number failAt fails
\* (0: no write fails) on opening the file, which is left as it was
RECURSIVE WriteChunks(_, _, _, _)
WriteChunks(packed, i, st, failAt) ==
  IF i > Len(packed) THEN st
  ELSE
    LET chunk    == packed[i]
        name     == ChunkFilename(chunk.ID)
    IN
    IF i = failAt
      THEN [st EXCEPT !.err = TRUE]
      ELSE WriteChunks(packed, i + 1,
             [files  |-> AddChunkRefs(st.files, chunk.Files, chunk.ID),
              chunks |-> AddChunk(st.chunks, ChunkInfoOf(chunk)),
              store  |-> Put(st.store, name, Compress(chunk.Data)),
              err    |-> FALSE],
             failAt)

\* the first loop of handleChanges: the catalog's file map after every change
\* of the batch is applied
RECURSIVE ApplyChanges(_, _)
ApplyChanges(files, changes) ==
  IF changes = {} THEN files
  ELSE
    LET change == CHOOSE c \in changes : TRUE
        next   == IF change.Operation \in {"CREATE", "MODIFY"}
                    THEN IF change.HasInfo
                           THEN UpdateFileInfo(files, change.Path, change.FileInfo)
                           ELSE files
                    ELSE IF change.Operation = "DELETE"
                           THEN MarkFileDeleted(files, change.Path)
                           ELSE files
    IN ApplyChanges(next, changes \ {change})

\* filesToBackup of handleChanges, as a set of paths
FilesToBackup(changes) ==
  { c.Path : c \in { d \in changes : d.Operation \in {"CREATE", "MODIFY"} /\ d.HasInfo } }

\* handleChanges up to (not including) SaveMetadata: the in-memory catalog,
\* the packer's counter, the backup directory and whether the batch failed.
\* order: the order of filesToBackup; fs: the tree as the packer finds it
HandleChanges(m, chunkID, store, changes, order, fs, failAt) ==
  LET files1 == ApplyChanges(m.Files, changes) IN
  IF order = <<>>
    THEN [meta |-> [m EXCEPT !.Files = files1], chunkID |-> chunkID,
          store |-> store, err |-> FALSE, packed |-> <<>>]
    ELSE
      LET cc == CreateChunks(order, chunkID, fs)
          st == WriteChunks(cc.chunks, 1,
                            [files |-> files1, chunks |-> m.Chunks,
                             store |-> store, err |-> FALSE],
                            failAt)
      IN [meta |-> [Files |-> st.files, Chunks |-> st.chunks],
          chunkID |-> cc.chunkID, store |-> st.store, err |-> st.err,
          packed |-> cc.chunks]

----------------------------------------------------------------------------
(* Persistence (manager.go): metadata.json *)

\* json.Marshal of a time.Time: the RFC 3339 text names the instant only
MarshalTime(mt) == mt.t

\* json.Unmarshal of a time.Time: the Location is the one the parser gives,
\* UTC for a "Z" suffix (written when the local zone's offset is zero) and
\* Local when the offset is the local zone's
UnmarshalTime(t, zoneIsUTC) == [t |-> t, loc |-> IF zoneIsUTC THEN "UTC" ELSE "Local"]

\* json.MarshalIndent of the catalog
MarshalMeta(m) ==
  [Files  |-> [p \in DOMAIN m.Files |->
                 [m.Files[p] EXCEPT !.ModTime = MarshalTime(@)]],
   Chunks |-> m.Chunks]

\* json.Unmarshal of the catalog
UnmarshalMeta(j, zoneIsUTC) ==
  [Files  |-> [p \in DOMAIN j.Files |->
                 [j.Files[p] EXCEPT !.ModTime = UnmarshalTime(@, zoneIsUTC)]],
   Chunks |-> j.Chunks]

\* the content of metadata.json before the first save
NoMetaFile == [present |-> FALSE, json |-> MarshalMeta(NewManager)]

\* SaveMetadata: the new content of metadata.json (temp file, then rename)
SaveMetadata(m) == [present |-> TRUE, json |-> MarshalMeta(m)]

\* LoadMetadata into a fresh Manager: no file is not an error
LoadMetadata(file, zoneIsUTC) ==
  IF file.present THEN UnmarshalMeta(file.json, zoneIsUTC) ELSE NewManager

----------------------------------------------------------------------------
(* Restore engine (restore/engine.go) *)

\* ValidateBackup: nil iff every ChunkRecord's file exists
ValidateBackup(m, store) ==
  \A i \in DOMAIN m.Chunks : m.Chunks[i].Filename \in DOMAIN store

\* chunkMap of RestoreAll: a later record of an ID replaces an earlier one
ChunkIDs(chunks) == { chunks[i].ID : i \in DOMAIN chunks }
ChunkMap(chunks) ==
  [id \in ChunkIDs(chunks) |->
     chunks[CHOOSE i \in DOMAIN chunks :
              /\ chunks[i].ID = id
              /\ \A j \in DOMAIN chunks : chunks[j].ID = id => j <= i]]

\* the loop of restoreFile over fileInfo.ChunkRefs; fileData is what has been
\* appended so far
RECURSIVE ReadChunkRefs(_, _, _, _)
ReadChunkRefs(refs, chunkMap, store, fileData) ==
  IF refs = <<>> THEN [ok |-> TRUE, err |-> "", data |-> fileData]
  ELSE
    LET chunkID == Head(refs) IN
    IF chunkID \notin DOMAIN chunkMap
      THEN [ok |-> FALSE, err |-> "chunk not found", data |-> <<>>]
    ELSE IF chunkMap[chunkID].Filename \notin DOMAIN store
      THEN [ok |-> FALSE, err |-> "failed to read chunk file", data |-> <<>>]
    ELSE
      LET chunkData == Decompress(store[chunkMap[chunkID].Filename]) IN
      IF ~chunkData.ok
        THEN [ok |-> FALSE, err |-> "failed to decompress chunk", data |-> <<>>]
      ELSE IF CalculateDataHash(chunkData.data) # chunkMap[chunkID].Hash
        THEN [ok |-> FALSE, err |-> "hash verification failed", data |-> <<>>]
      ELSE ReadChunkRefs(Tail(refs), chunkMap, store, fileData \o chunkData.data)

\* the modification time os.WriteFile leaves on a restored file: the clock at
\* the restore, which is none of the recorded modification times
RestoreClock == 0

\* restoreFile: the bytes and modification time left at the target path, or
\* the error; writeFails: os.WriteFile on the target fails; chtimesFails:
\* os.Chtimes on the written file fails, which is logged and not returned
RestoreFile(fileInfo, chunkMap, store, writeFails, chtimesFails) ==
  LET r == ReadChunkRefs(fileInfo.ChunkRefs, chunkMap, store, <<>>) IN
  IF ~r.ok THEN [ok |-> FALSE, err |-> r.err, data |-> <<>>, mtime |-> RestoreClock]
  ELSE IF writeFails
    THEN [ok |-> FALSE, err |-> "failed to write restored file", data |-> <<>>,
          mtime |-> RestoreClock]
  ELSE [ok |-> TRUE, err |-> "", data |-> r.data,
        mtime |-> IF chtimesFails THEN RestoreClock ELSE fileInfo.ModTime.t]

\* the loop of RestoreAll over meta.Files, in the order the map range gives.
\* st is [target, attempted, failed]
RECURSIVE RestoreLoop(_, _, _, _, _, _, _)
RestoreLoop(order, files, chunkMap, store, badWrites, badTimes, st) ==
  IF order = <<>> THEN st
  ELSE
    LET fileInfo == files[Head(order)] IN
    IF fileInfo.IsDeleted
      THEN RestoreLoop(Tail(order), files, chunkMap, store, badWrites, badTimes, st)
      ELSE
        LET r == RestoreFile(fileInfo, chunkMap, store, fileInfo.Path \in badWrites,
                             fileInfo.Path \in badTimes) IN
        RestoreLoop(Tail(order), files, chunkMap, store, badWrites, badTimes,
          [target    |-> IF r.ok
                           THEN Put(st.target, fileInfo.Path,
                                    [content |-> r.data, mtime |-> r.mtime])
                           ELSE st.target,
           attempted |-> st.attempted \cup {fileInfo.Path},
           failed    |-> IF r.ok THEN st.failed ELSE st.failed \cup {fileInfo.Path}])

\* a variant of RestoreAll that returns the error of a file that failed
RestoreAllReturnsFileError(m, store, order, badWrites, badTimes) ==
  LET st == RestoreLoop(order, m.Files, ChunkMap(m.Chunks), store, badWrites,
                        badTimes, [target |-> EmptyMap, attempted |-> {}, failed |-> {}])
  IN [err |-> (~ValidateBackup(m, store) \/ st.failed # {}),
      target |-> st.target, attempted |-> st.attempted, failed |-> st.failed]

\* RestoreAll on the catalog m: [err, target, attempted, failed]
RestoreAll(m, store, order, badWrites, badTimes) ==
  IF ~ValidateBackup(m, store)
    THEN [err |-> TRUE, target |-> EmptyMap, attempted |-> {}, failed |-> {}]
    ELSE
      LET st == RestoreLoop(order, m.Files, ChunkMap(m.Chunks), store, badWrites,
                            badTimes, [target |-> EmptyMap, attempted |-> {}, failed |-> {}])
      IN [err |-> FALSE, target |-> st.target, attempted |-> st.attempted,
          failed |-> st.failed]

----------------------------------------------------------------------------
(* State *)

VARIABLES
  tree,          \* the watched tree: path -> [content, mtime, readable]
  zoneIsUTC,     \* the local time zone has offset zero (JSON times load as UTC)
  mode,          \* "watch": the backup process works on the backup directory;
                 \* "restore": the backup directory is at rest, restore runs
  meta,          \* the backup process's in-memory catalog [Files, Chunks]
  chunkID,       \* the Chunker's counter c.chunkID
  metaFile,      \* metadata.json: [present, json]
  store,         \* the chunk files of the backup directory: filename -> bytes
  pc,            \* PerformFullBackup: "idle", or "detected" between
                 \* DetectChanges and handleChanges
  pending,       \* the change list DetectChanges returned
  batchErr,      \* the last handleChanges of this process returned an error
                 \* (a chunk write or the catalog save failed)
  target,        \* the target tree the last restore run wrote
  restoreErr,    \* the last RestoreAll returned an error
  attempted,     \* the paths the last RestoreAll called restoreFile on
  restoreFailed, \* the paths whose restoreFile failed in the last run
  restoreValid,  \* ValidateBackup passed in the last run
  restoreLive,   \* the live paths of the catalog the last run restored from
  editsLeft, faultsLeft, tampersLeft, \* what is left of the bounds
  chunkCap,      \* the bound on catalogued chunks
  diskPacked,    \* path -> the bytes a successful batch packed for the path's
                 \* persisted FileRecord
  skipped,       \* paths reported CREATE/MODIFY that the packer skipped and
                 \* that no later batch has touched
  failedWrites,  \* path -> the FileRecord a batch of this process that failed
                 \* on a chunk write left in the in-memory catalog (no later
                 \* batch has touched it)
  failedChunks,  \* indices of meta.Chunks that a batch which failed on a
                 \* chunk write appended
  packFiles,     \* packer on its own: the input list of CreateChunks
  packFs,        \* packer on its own: the files the list names
  packPc,        \* "off", "input" or "packed"
  packOut,       \* the chunks CreateChunks returned
  exRes,         \* the last call(s) of ExtractFileFromChunk on those chunks
  saveDisk,      \* save step by step: file name -> [json, written] in the
                 \* backup directory (written: how much of the document is there)
  savePc,        \* SaveMetadata: "off", "idle", "writing", "written", or
                 \* "crashed" when the process died in it
  saveData,      \* the document SaveMetadata marshalled
  loaded,        \* what the last LoadMetadata of a reader found
  changeChan,    \* Engine.changeChan: the queued batches [id, changes]
  shutdownChan,  \* Engine.shutdownChan: "open" or "closed"
  wg,            \* Engine.wg: the counter of the WaitGroup
  loopPc,        \* processChanges: "off", "select", "locking" (in
                 \* handleChanges, at e.mu.Lock), "handling" (inside
                 \* handleChanges, before SaveMetadata), "saving" or "done"
  loopBatch,     \* the batch processChanges took from changeChan
  mainPc,        \* runBackup's task: "initial" (the initial PerformFullBackup),
                 \* "loop" (its select loop, or a periodic PerformFullBackup
                 \* up to e.mu.Lock), "batch" (PerformFullBackup inside
                 \* handleChanges, past e.mu.Lock), "waiting" (inside
                 \* Shutdown, at wg.Wait) or "returned" (Shutdown has returned)
  mu,            \* Engine.mu: "none", or the task that holds it ("loop", "main")
  sent,          \* how many batches ProcessChanges has queued
  handled,       \* the ids of the batches whose handleChanges has returned
  inFlightAtClose, \* the id of the batch in handleChanges when shutdownChan
                 \* was closed (0: none)
  watchPath,     \* the directory gobackup-app was started on (--watch)
  now,           \* the clock, in milliseconds
  clockEnd,      \* the instant the clock is followed to
  timers,        \* the timers debouncedSend has created, in order: the path
                 \* of their notification, the operation their function
                 \* finds in its flags, its instant, and the state
                 \* "armed", "stopped", "blocked" (fired, its function at the
                 \* select that sends on changeChan), "returned" (its function
                 \* has returned, the callback is at w.debounceMu.Lock) or
                 \* "done" (the callback has deleted the path's entry)
  debouncer,     \* Watcher.debouncer: path -> index of its timer (0: no entry)
  out,           \* the FileEvents the consumer has received from Changes()
  ctxDone,       \* Watcher.ctx is cancelled
  fsOpen,        \* the fsnotify watcher is open
  evPc,          \* handleEvents: "off", "select", "sendErr" (at w.errorChan <- err)
                 \* or "done"
  errQ,          \* how many errors Watcher.errorChan holds
  notesLeft,     \* notifications fsnotify still delivers
  errsLeft,      \* errors fsnotify still delivers
  scanPc,        \* periodicFullScan: "off", "select", "scanning" or "done"
  scanLeft,      \* the files performFullScan has not yet sent
  nextScan       \* the instant of the next tick of the scan ticker

\* the backup and restore runs
mainVars == << tree, zoneIsUTC, mode, meta, chunkID, metaFile, store, pc, pending,
               batchErr, target, restoreErr, attempted, restoreFailed, restoreValid,
               restoreLive, editsLeft, faultsLeft, tampersLeft, chunkCap,
               diskPacked, skipped, failedWrites, failedChunks >>
\* the packer on its own
packVars == << packFiles, packFs, packPc, packOut, exRes >>
\* the components exercised on their own
\* SaveMetadata step by step
saveVars == << saveDisk, savePc, saveData, loaded >>
\* the engine's processing loop and Shutdown
loopVars == << changeChan, shutdownChan, wg, loopPc, loopBatch, mainPc, mu, sent,
               handled, inFlightAtClose, watchPath >>
\* the watcher
watchVars == << now, clockEnd, timers, debouncer, out, ctxDone, fsOpen, evPc, errQ,
                notesLeft, errsLeft, scanPc, scanLeft, nextScan >>
sideVars == << packVars, saveVars, loopVars, watchVars >>

vars == << mainVars, sideVars >>

\* the backup process's memory
processVars == << meta, chunkID, pc, pending, batchErr, failedWrites, failedChunks >>
\* what a restore run leaves
resultVars  == << target, restoreErr, attempted, restoreFailed, restoreValid,
                  restoreLive >>
restoreVars == << resultVars, tampersLeft >>

\* what a damaged chunk file can hold: not a gzip stream, or the gzip
\* stream of other data
CorruptBytes == { <<0>>, Compress(<<9>>) }

InitWith(edits, chunks, faults, tampers) ==
  /\ tree = EmptyMap
  /\ zoneIsUTC \in BOOLEAN
  /\ mode = "watch"
  /\ meta = NewManager
  /\ chunkID = NewChunker
  /\ metaFile = NoMetaFile
  /\ store = EmptyMap
  /\ pc = "idle"
  /\ pending = {}
  /\ batchErr = FALSE
  /\ target = EmptyMap
  /\ restoreErr = FALSE
  /\ attempted = {}
  /\ restoreFailed = {}
  /\ restoreValid = FALSE
  /\ restoreLive = {}
  /\ editsLeft = edits
  /\ faultsLeft = faults
  /\ tampersLeft = tampers
  /\ chunkCap = chunks
  /\ diskPacked = EmptyMap
  /\ skipped = {}
  /\ failedWrites = EmptyMap
  /\ failedChunks = {}

\* no call of ExtractFileFromChunk yet
NoExtract == [kind |-> "none", chunk |-> 0, results |-> <<>>]

\* the packer is not exercised on its own
PackOff ==
  /\ packFiles = <<>>
  /\ packFs = EmptyMap
  /\ packPc = "off"
  /\ packOut = <<>>
  /\ exRes = NoExtract

\* SaveMetadata is not exercised step by step
SaveOff ==
  /\ saveDisk = EmptyMap
  /\ savePc = "off"
  /\ saveData = MarshalMeta(NewManager)
  /\ loaded = "none"

\* no batch taken from changeChan
NoBatch == [id |-> 0, changes |-> {}]

\* the processing loop is not exercised on its own
LoopOff ==
  /\ changeChan = <<>>
  /\ shutdownChan = "open"
  /\ wg = 0
  /\ loopPc = "off"
  /\ loopBatch = NoBatch
  /\ mainPc = "off"
  /\ mu = "none"
  /\ sent = 0
  /\ handled = {}
  /\ inFlightAtClose = 0
  /\ watchPath = "."

\* the watcher is not exercised on its own
WatchOff ==
  /\ now = 0
  /\ clockEnd = 0
  /\ timers = <<>>
  /\ debouncer = [p \in {} |-> 0]
  /\ out = <<>>
  /\ ctxDone = FALSE
  /\ fsOpen = FALSE
  /\ evPc = "off"
  /\ errQ = 0
  /\ notesLeft = 0
  /\ errsLeft = 0
  /\ scanPc = "off"
  /\ scanLeft = {}
  /\ nextScan = 0

\* the components that are not exercised on their own
SideOff(except) ==
  /\ IF except = "packer" THEN TRUE ELSE PackOff
  /\ IF except = "save" THEN TRUE ELSE SaveOff
  /\ IF except = "loop" THEN TRUE ELSE LoopOff
  /\ IF except = "watcher" THEN TRUE ELSE WatchOff

Init == InitWith(MaxEdits, MaxChunks, MaxFaults, MaxTampers) /\ SideOff("none")

InitDeep == InitWith(DeepEdits, DeepChunks, DeepFaults, DeepTampers) /\ SideOff("none")

----------------------------------------------------------------------------
(* The environment: the user's tree *)

\* a file is created or rewritten
WriteFile(p, c, t) ==
  /\ mode = "watch"
  /\ editsLeft > 0
  /\ editsLeft' = editsLeft - 1
  /\ tree' = Put(tree, p, [content |-> c, mtime |-> t,
                           readable |-> IF p \in DOMAIN tree THEN tree[p].readable
                                                              ELSE TRUE])
  /\ tree' # tree
  /\ UNCHANGED << zoneIsUTC, mode, metaFile, store, diskPacked, skipped,
                  faultsLeft, chunkCap, processVars, restoreVars >>
  /\ UNCHANGED sideVars

\* a file is removed
RemoveFile(p) ==
  /\ mode = "watch"
  /\ editsLeft > 0
  /\ editsLeft' = editsLeft - 1
  /\ p \in DOMAIN tree
  /\ tree' = Drop(tree, p)
  /\ UNCHANGED << zoneIsUTC, mode, metaFile, store, diskPacked, skipped,
                  faultsLeft, chunkCap, processVars, restoreVars >>
  /\ UNCHANGED sideVars

\* a file's read permission is taken away or given back
Chmod(p) ==
  /\ mode = "watch"
  /\ editsLeft > 0
  /\ editsLeft' = editsLeft - 1
  /\ p \in DOMAIN tree
  /\ tree' = Put(tree, p, [tree[p] EXCEPT !.readable = ~@])
  /\ UNCHANGED << zoneIsUTC, mode, metaFile, store, diskPacked, skipped,
                  faultsLeft, chunkCap, processVars, restoreVars >>
  /\ UNCHANGED sideVars

----------------------------------------------------------------------------
(* The backup process *)

\* PerformFullBackup, first half: DetectChanges walks the tree. Once the
\* bound on catalogued chunks is reached, the only full backups followed are
\* those whose changes are deletions: they pack nothing
PerformFullBackupDetect ==
  /\ mode = "watch"
  /\ pc = "idle"
  /\ \E changes \in { DetectChanges(meta.Files, tree) } :
       /\ \/ Len(meta.Chunks) < chunkCap /\ chunkID <= chunkCap + 1
          \/ changes # {} /\ FilesToBackup(changes) = {}
       /\ pending' = changes
  /\ pc' = "detected"
  /\ UNCHANGED << tree, zoneIsUTC, mode, meta, chunkID, metaFile, store,
                  batchErr, editsLeft, faultsLeft, chunkCap,
                  diskPacked, skipped,
                  failedWrites, failedChunks, restoreVars >>
  /\ UNCHANGED sideVars

\* the paths placed in chunks 1..k of a packer result, with their bytes
PackedBytes(chunks, k) ==
  LET places == { <<i, j>> \in (1..k) \X (1..Cardinality(Paths)) :
                    i <= Len(chunks) /\ j <= Len(chunks[i].Files) }
  IN [p \in { chunks[x[1]].Files[x[2]].Path : x \in places } |->
        LET x == CHOOSE y \in places : chunks[y[1]].Files[y[2]].Path = p
            f == chunks[x[1]].Files[x[2]]
        IN ByteRange(chunks[x[1]].Data, f.Offset, f.Size)]

\* PerformFullBackup, second half: handleChanges on the detected changes.
\* The tree the packer reads is the tree of this moment. When every chunk is
\* written, handleChanges ends with SaveMetadata, which can fail on the write
\* of the temporary file or on the rename: the chunk files and the catalog in
\* memory then stay as the batch made them, metadata.json stays as it was and
\* the error is returned
PerformFullBackupHandle ==
  /\ mode = "watch"
  /\ pc = "detected"
  /\ \E order \in Orders(FilesToBackup(pending)) :
     \E cc \in { CreateChunks(order, chunkID, tree) } :
     \E failAt \in 0..Len(cc.chunks) :
     \E r \in { HandleChanges(meta, chunkID, store, pending, order, tree, failAt) } :
     \E saveOk \in (IF r.err THEN {TRUE} ELSE BOOLEAN) :
     \E failed \in { r.err \/ ~saveOk } :
     \E packed \in { PackedBytes(cc.chunks,
                                 IF failAt = 0 THEN Len(cc.chunks) ELSE failAt - 1) } :
     \E newJson \in { MarshalMeta(r.meta) } :
       LET touched  == { c.Path : c \in pending }
           inChunks == DOMAIN PackedBytes(cc.chunks, Len(cc.chunks))
       IN
       /\ meta' = r.meta
       /\ chunkID' = r.chunkID
       /\ store' = r.store
       /\ failed => faultsLeft > 0
       /\ faultsLeft' = IF failed THEN faultsLeft - 1 ELSE faultsLeft
       /\ metaFile' = IF failed THEN metaFile ELSE SaveMetadata(r.meta)
       /\ batchErr' = failed
       /\ skipped' = (skipped \ touched) \cup (FilesToBackup(pending) \ inChunks)
       /\ failedWrites' =
            IF r.err
              THEN [p \in DOMAIN failedWrites \cup touched |->
                      IF p \in touched THEN r.meta.Files[p] ELSE failedWrites[p]]
              ELSE [p \in DOMAIN failedWrites \ touched |-> failedWrites[p]]
       /\ failedChunks' =
            IF r.err
              THEN failedChunks \cup ((Len(meta.Chunks) + 1) .. Len(r.meta.Chunks))
              ELSE failedChunks
       /\ diskPacked' =
            IF failed THEN diskPacked
            ELSE [p \in { q \in DOMAIN newJson.Files :
                            /\ ~newJson.Files[q].IsDeleted
                            /\ \/ q \in DOMAIN packed
                               \/ /\ q \in DOMAIN diskPacked
                                  /\ q \in DOMAIN metaFile.json.Files
                                  /\ metaFile.json.Files[q] = newJson.Files[q] }
                    |-> IF p \in DOMAIN packed THEN packed[p] ELSE diskPacked[p]]
  /\ pc' = "idle"
  /\ pending' = {}
  /\ UNCHANGED << tree, zoneIsUTC, mode, editsLeft, chunkCap,
                  restoreVars >>
  /\ UNCHANGED sideVars

\* the process ends (at any point) and a new one starts: NewEngine, Initialize
Restart ==
  /\ mode = "watch"
  /\ faultsLeft > 0
  /\ faultsLeft' = faultsLeft - 1
  /\ meta' = LoadMetadata(metaFile, zoneIsUTC)
  /\ chunkID' = NewChunker
  /\ pc' = "idle"
  /\ pending' = {}
  /\ batchErr' = FALSE
  /\ failedWrites' = EmptyMap
  /\ failedChunks' = {}
  /\ UNCHANGED << tree, zoneIsUTC, mode, metaFile, store, editsLeft, chunkCap,
                  diskPacked, skipped, restoreVars >>
  /\ UNCHANGED sideVars

\* the backup process ends for good and the backup directory is taken to
\* where it is restored: the process's memory and the watched tree are gone.
\* The time zone is not followed further: restoreFile uses the instant of
\* ModTime only, so no result of a restore depends on it
StopBackup ==
  /\ mode = "watch"
  /\ mode' = "restore"
  /\ zoneIsUTC' = FALSE
  /\ tree' = EmptyMap
  /\ meta' = NewManager
  /\ chunkID' = NewChunker
  /\ pc' = "idle"
  /\ pending' = {}
  /\ batchErr' = FALSE
  /\ failedWrites' = EmptyMap
  /\ failedChunks' = {}
  /\ editsLeft' = 0
  /\ faultsLeft' = 0
  /\ skipped' = {}
  /\ UNCHANGED << metaFile, store, chunkCap, diskPacked, restoreVars >>
  /\ UNCHANGED sideVars

----------------------------------------------------------------------------
(* The backup directory at rest, and the restore process: restore.NewEngine, *)
(* Initialize, RestoreAll into an empty target directory                     *)

\* no restore has run yet on the backup directory
NotRestoredYet == ~restoreErr /\ ~restoreValid

\* a chunk file is deleted from the backup directory. The damage the model
\* follows is done before the directory is restored, so that what a run left
\* is always the result of a run on the directory as it is
DeleteChunkFile(name) ==
  /\ mode = "restore"
  /\ NotRestoredYet
  /\ tampersLeft > 0
  /\ name \in DOMAIN store
  /\ store' = Drop(store, name)
  /\ tampersLeft' = tampersLeft - 1
  /\ UNCHANGED << tree, zoneIsUTC, mode, metaFile, diskPacked, skipped, editsLeft,
                  faultsLeft, chunkCap, processVars, resultVars >>
  /\ UNCHANGED sideVars

\* a chunk file is damaged
CorruptChunkFile(name, bytes) ==
  /\ mode = "restore"
  /\ NotRestoredYet
  /\ tampersLeft > 0
  /\ name \in DOMAIN store
  /\ store[name] # bytes
  /\ store' = Put(store, name, bytes)
  /\ tampersLeft' = tampersLeft - 1
  /\ UNCHANGED << tree, zoneIsUTC, mode, metaFile, diskPacked, skipped, editsLeft,
                  faultsLeft, chunkCap, processVars, resultVars >>
  /\ UNCHANGED sideVars

RunRestore ==
  /\ mode = "restore"
  /\ \E m \in { LoadMetadata(metaFile, zoneIsUTC) } :
     \E live \in { { p \in DOMAIN m.Files : ~m.Files[p].IsDeleted } } :
     \E r \in UNION { { RestoreAll(m, store, order, badWrites, badTimes) :
                          order \in Orders(DOMAIN m.Files),
                          badTimes \in SUBSET (live \ badWrites) } :
                        badWrites \in SUBSET live } :
       /\ target' = r.target
       /\ restoreErr' = r.err
       /\ attempted' = r.attempted
       /\ restoreFailed' = r.failed
       /\ restoreValid' = ValidateBackup(m, store)
       /\ restoreLive' = live
  /\ UNCHANGED << tree, zoneIsUTC, mode, metaFile, store, diskPacked, skipped,
                  editsLeft, faultsLeft, chunkCap, processVars, tampersLeft >>
  /\ UNCHANGED sideVars

----------------------------------------------------------------------------
(* Specification *)

Next ==
  \/ \E p \in Paths, c \in Contents, t \in MTimes : WriteFile(p, c, t)
  \/ \E p \in Paths : RemoveFile(p)
  \/ \E p \in Paths : Chmod(p)
  \/ PerformFullBackupDetect
  \/ PerformFullBackupHandle
  \/ Restart
  \/ StopBackup
  \/ \E name \in DOMAIN store : DeleteChunkFile(name)
  \/ \E name \in DOMAIN store, bytes \in CorruptBytes : CorruptChunkFile(name, bytes)
  \/ RunRestore

Spec == Init /\ [][Next]_vars

SpecDeep == InitDeep /\ [][Next]_vars

----------------------------------------------------------------------------
(* The packer on its own: CreateChunks on any input list, and             *)
(* ExtractFileFromChunk on the chunks it returns                          *)

\* the paths and contents of the packer's inputs: files of 2, 4 and 6 MiB
PackPaths == Paths \cup {"c.txt"}
PackContents == Contents \cup { <<3, 3, 3, 3, 3, 3>> }

\* the longest input list
PackMaxFiles == 3

\* the values a changed byte of a chunk can take
ByteValues == 0..3

\* how far beyond the end of the chunk a requested range reaches, in blocks
MaxBeyond == 2

\* the input lists: distinct paths in any order
PackLists ==
  UNION { Orders(S) : S \in { T \in SUBSET PackPaths : Cardinality(T) <= PackMaxFiles } }

\* the files behind the paths: absent (os.Stat fails), unreadable, or readable
PackTrees ==
  UNION { [D -> [content : PackContents, mtime : {1}, readable : BOOLEAN]] :
            D \in SUBSET PackPaths }

InitPacker ==
  /\ InitWith(0, 0, 0, 0)
  /\ zoneIsUTC = FALSE
  /\ SideOff("packer")
  /\ packFiles \in PackLists
  /\ packFs \in PackTrees
  /\ packPc = "input"
  /\ packOut = <<>>
  /\ exRes = NoExtract

\* CreateChunks on the input list, by a new Chunker
PackerCreateChunks ==
  /\ packPc = "input"
  /\ packOut' = CreateChunks(packFiles, NewChunker, packFs).chunks
  /\ packPc' = "packed"
  /\ UNCHANGED << mainVars, saveVars, loopVars, watchVars, packFiles, packFs, exRes >>

\* ExtractFileFromChunk for the j-th range recorded in chunk i
PackerExtract(i, j) ==
  /\ packPc = "packed"
  /\ i \in DOMAIN packOut
  /\ j \in DOMAIN packOut[i].Files
  /\ exRes' = [kind    |-> "recorded",
               chunk   |-> i,
               results |-> [k \in {j} |->
                              ExtractFileFromChunk(packOut[i].Data,
                                                   packOut[i].Files[k])]]
  /\ UNCHANGED << mainVars, saveVars, loopVars, watchVars, packFiles, packFs, packPc, packOut >>

\* ExtractFileFromChunk for a range that starts where the j-th range of chunk i
\* starts and ends extra blocks after the end of the chunk
PackerExtractBeyond(i, j, extra) ==
  /\ packPc = "packed"
  /\ i \in DOMAIN packOut
  /\ j \in DOMAIN packOut[i].Files
  /\ LET f == packOut[i].Files[j]
         range == [f EXCEPT !.Size = ByteLen(packOut[i].Data) - f.Offset
                                       + extra * BlockBytes]
     IN exRes' = [kind    |-> "beyond",
                  chunk   |-> i,
                  results |-> [k \in {j} |->
                                 ExtractFileFromChunk(packOut[i].Data, range)]]
  /\ UNCHANGED << mainVars, saveVars, loopVars, watchVars, packFiles, packFs, packPc, packOut >>

\* one byte (block) of chunk i changes to v; ExtractFileFromChunk for every
\* range recorded in the chunk
PackerExtractChanged(i, pos, v) ==
  /\ packPc = "packed"
  /\ i \in DOMAIN packOut
  /\ pos \in DOMAIN packOut[i].Data
  /\ v # packOut[i].Data[pos]
  /\ LET changed == [packOut[i].Data EXCEPT ![pos] = v]
     IN exRes' = [kind    |-> "changed",
                  chunk   |-> i,
                  results |-> [k \in DOMAIN packOut[i].Files |->
                                 ExtractFileFromChunk(changed, packOut[i].Files[k])]]
  /\ UNCHANGED << mainVars, saveVars, loopVars, watchVars, packFiles, packFs, packPc, packOut >>

NextPacker ==
  \/ PackerCreateChunks
  \/ \E i, j \in 1..PackMaxFiles : PackerExtract(i, j)
  \/ \E i, j \in 1..PackMaxFiles : \E extra \in 1..MaxBeyond :
       PackerExtractBeyond(i, j, extra)
  \/ \E i \in 1..PackMaxFiles :
       \E pos \in 1..(PackMaxFiles * 6) : \E v \in ByteValues :
         PackerExtractChanged(i, pos, v)

SpecPacker == InitPacker /\ [][NextPacker]_vars

----------------------------------------------------------------------------
(* SaveMetadata step by step, with crashes and a concurrent reader        *)

\* filepath.Join(m.backupPath, "metadata.json")
MetadataPath == "metadata.json"

\* a variant of TempPath: the document is written under its final name
TempPathIsFinal == MetadataPath

\* metadataPath + ".tmp"
TempPath == "metadata.json.tmp"

\* the number of write calls os.WriteFile needs for the document
WriteParts == 2

\* the catalogs that are saved: each path absent, live or tombstoned
SaveCatalogs ==
  { [Files  |-> [p \in DOMAIN del |->
                   [Path |-> p, Size |-> ByteLen(<<1, 1>>),
                    ModTime |-> FileModTime(1),
                    Hash |-> CalculateDataHash(<<1, 1>>),
                    ChunkRefs |-> <<>>, IsDeleted |-> del[p]]],
     Chunks |-> <<>>] :
      del \in UNION { [D -> BOOLEAN] : D \in SUBSET Paths } }

\* the file name holds the whole document
Complete(disk, name) == name \in DOMAIN disk /\ disk[name].written = WriteParts

InitSave ==
  /\ InitWith(0, 0, 0, 0)
  /\ zoneIsUTC = FALSE
  /\ SideOff("save")
  /\ saveDisk = EmptyMap
  /\ savePc = "idle"
  /\ saveData = MarshalMeta(NewManager)
  /\ loaded = "none"

\* SaveMetadata up to json.MarshalIndent, then os.WriteFile opens (creates or
\* truncates) the temp file
SaveOpenTemp(m) ==
  /\ savePc \in {"idle", "crashed"}
  /\ saveData' = MarshalMeta(m)
  /\ saveDisk' = Put(saveDisk, TempPath, [json |-> MarshalMeta(m), written |-> 0])
  /\ savePc' = "writing"
  /\ UNCHANGED << mainVars, packVars, loopVars, watchVars, loaded >>

\* os.WriteFile writes the next part of the document; after the last part it
\* returns nil
SaveWritePart ==
  /\ savePc = "writing"
  /\ saveDisk' = Put(saveDisk, TempPath,
                     [saveDisk[TempPath] EXCEPT !.written = @ + 1])
  /\ savePc' = IF saveDisk[TempPath].written + 1 = WriteParts
                 THEN "written" ELSE "writing"
  /\ UNCHANGED << mainVars, packVars, loopVars, watchVars, saveData, loaded >>

\* os.WriteFile returns an error: SaveMetadata returns it
SaveWriteFails ==
  /\ savePc = "writing"
  /\ savePc' = "idle"
  /\ UNCHANGED << mainVars, packVars, loopVars, watchVars, saveDisk, saveData, loaded >>

\* os.Rename(tempPath, metadataPath)
SaveRename ==
  /\ savePc = "written"
  /\ saveDisk' = Put(Drop(saveDisk, TempPath), MetadataPath, saveDisk[TempPath])
  /\ savePc' = "idle"
  /\ UNCHANGED << mainVars, packVars, loopVars, watchVars, saveData, loaded >>

\* os.Rename returns an error: SaveMetadata returns it
SaveRenameFails ==
  /\ savePc = "written"
  /\ savePc' = "idle"
  /\ UNCHANGED << mainVars, packVars, loopVars, watchVars, saveDisk, saveData, loaded >>

\* the process dies in the middle of SaveMetadata; the files stay as they are
SaveCrash ==
  /\ savePc \in {"writing", "written"}
  /\ savePc' = "crashed"
  /\ UNCHANGED << mainVars, packVars, loopVars, watchVars, saveDisk, saveData, loaded >>

\* LoadMetadata of another process (restore, or a restarted backup), at any
\* moment: no file is a fresh catalog, a partial document fails json.Unmarshal
ReaderLoadMetadata ==
  /\ savePc # "off"
  /\ loaded' = IF MetadataPath \notin DOMAIN saveDisk THEN "fresh"
               ELSE IF Complete(saveDisk, MetadataPath) THEN "ok"
               ELSE "error"
  /\ UNCHANGED << mainVars, packVars, loopVars, watchVars, saveDisk, savePc, saveData >>

NextSave ==
  \/ \E m \in SaveCatalogs : SaveOpenTemp(m)
  \/ SaveWritePart
  \/ SaveWriteFails
  \/ SaveRename
  \/ SaveRenameFails
  \/ SaveCrash
  \/ ReaderLoadMetadata

SpecSave == InitSave /\ [][NextSave]_vars

----------------------------------------------------------------------------
(* The engine's processing loop (Start, ProcessChanges, processChanges)   *)
(* and Shutdown                                                           *)

\* make(chan []models.FileChange, 10)
ChangeChanCap == 10

\* how many batches runBackup hands to ProcessChanges
MaxBatches == 2

\* a variant of wg.Wait that does not wait
WgWaitReturnsAtOnce(counter) == TRUE

\* wg.Wait() returns when the counter is zero
WgWait(counter) == counter = 0

\* the directories gobackup-app is started on (--watch): the working
\* directory, or a directory named by its absolute path
WatchDirs == {".", "/data/test"}

\* the Name of the fsnotify event, and the path of a scan's walk, for the file
\* at path p below the watched directory: filepath.Join(dir, p). It is the
\* catalog's key of the file (the path relative to the watched directory)
\* only when the watched directory is "."
EventName(dir, p) == IF dir = "." THEN p ELSE dir \o "/" \o p

\* the batches runBackup builds from a watcher event: one change without
\* FileInfo, whose Path is the event's
WatchChanges(dir, files) ==
  { {FileChange(EventName(dir, p), op, FALSE, NilInfo)} :
      p \in files, op \in {"CREATE", "MODIFY", "DELETE", "SCAN"} }

\* how many times the watched tree is changed while the engine runs, below
\* how many catalogued chunks a full backup still starts, and how many batches
\* fail on a chunk write or on the catalog save
LoopEdits == 2
LoopChunks == 1
LoopFaults == 1

\* the file that is written and removed while the engine runs, and that the
\* watcher's events are about
LoopPaths == {"a.txt"}
LoopContents == { <<1, 1>> }
LoopMTimes == {1}

\* a variant of e.mu.Lock that does not wait for the mutex
LockWithoutWaiting(holder) == TRUE

\* e.mu.Lock() returns when no task holds the mutex
Lock(holder) == holder = "none"

\* the main variables a batch of the processing loop does not touch
loopFrame == << tree, zoneIsUTC, mode, pc, pending, target, restoreErr, attempted,
                restoreFailed, restoreValid, restoreLive, editsLeft, tampersLeft,
                chunkCap, diskPacked, skipped, failedWrites, failedChunks >>

\* NewEngine, Initialize, Start: wg.Add(1), go processChanges; runBackup is
\* about to run its initial PerformFullBackup
InitLoop ==
  /\ InitWith(LoopEdits, LoopChunks, LoopFaults, 0)
  /\ zoneIsUTC = FALSE
  /\ SideOff("loop")
  /\ changeChan = <<>>
  /\ shutdownChan = "open"
  /\ wg = 1
  /\ loopPc = "select"
  /\ loopBatch = NoBatch
  /\ mainPc = "initial"
  /\ mu = "none"
  /\ sent = 0
  /\ handled = {}
  /\ inFlightAtClose = 0
  /\ watchPath \in WatchDirs

\* PerformFullBackup on runBackup's task (the initial one, or one of the
\* refresh ticker): DetectChanges
MainDetectChanges ==
  /\ mainPc \in {"initial", "loop"}
  /\ PerformFullBackupDetect

\* PerformFullBackup on runBackup's task: handleChanges takes e.mu
MainLock ==
  /\ mainPc \in {"initial", "loop"}
  /\ pc = "detected"
  /\ Lock(mu)
  /\ mu' = "main"
  /\ mainPc' = "batch"
  /\ UNCHANGED << mainVars, packVars, saveVars, watchVars, changeChan, shutdownChan,
                  wg, loopPc, loopBatch, sent, handled, inFlightAtClose, watchPath >>

\* PerformFullBackup on runBackup's task: handleChanges, from the grouping to
\* SaveMetadata or the error exit
MainHandleChanges ==
  /\ mainPc = "batch"
  /\ PerformFullBackupHandle

\* PerformFullBackup on runBackup's task: the deferred e.mu.Unlock; runBackup
\* is at the select of its loop
MainUnlock ==
  /\ mainPc = "batch"
  /\ pc = "idle"
  /\ mu' = "none"
  /\ mainPc' = "loop"
  /\ UNCHANGED << mainVars, packVars, saveVars, watchVars, changeChan, shutdownChan,
                  wg, loopPc, loopBatch, sent, handled, inFlightAtClose, watchPath >>

\* runBackup receives a watcher event and calls ProcessChanges, which queues
\* the batch (shutdownChan is open while runBackup is in its loop)
ProcessChanges(changes) ==
  /\ mainPc = "loop"
  /\ pc = "idle"
  /\ sent < MaxBatches
  /\ Len(changeChan) < ChangeChanCap
  /\ changeChan' = Append(changeChan, [id |-> sent + 1, changes |-> changes])
  /\ sent' = sent + 1
  /\ UNCHANGED << mainVars, packVars, saveVars, watchVars, shutdownChan, wg, loopPc,
                  loopBatch, mainPc, mu, handled, inFlightAtClose, watchPath >>

\* processChanges: the select takes a batch from changeChan (also when
\* shutdownChan is closed: select picks any ready case) and calls handleChanges
LoopReceive ==
  /\ loopPc = "select"
  /\ changeChan # <<>>
  /\ loopBatch' = Head(changeChan)
  /\ changeChan' = Tail(changeChan)
  /\ loopPc' = "locking"
  /\ UNCHANGED << mainVars, packVars, saveVars, watchVars, shutdownChan, wg, mainPc,
                  mu, sent, handled, inFlightAtClose, watchPath >>

\* handleChanges of the processing loop takes e.mu
LoopLock ==
  /\ loopPc = "locking"
  /\ Lock(mu)
  /\ mu' = "loop"
  /\ loopPc' = "handling"
  /\ UNCHANGED << mainVars, packVars, saveVars, watchVars, changeChan, shutdownChan,
                  wg, loopBatch, mainPc, sent, handled, inFlightAtClose, watchPath >>

\* handleChanges on the batch, up to SaveMetadata
LoopHandleChanges ==
  /\ loopPc = "handling"
  /\ \E r \in { HandleChanges(meta, chunkID, store, loopBatch.changes, <<>>, tree, 0) } :
       /\ meta' = r.meta
       /\ chunkID' = r.chunkID
       /\ store' = r.store
  /\ loopPc' = "saving"
  /\ UNCHANGED << loopFrame, faultsLeft, metaFile, batchErr, packVars, saveVars,
                  watchVars, changeChan, shutdownChan, wg, loopBatch, mainPc, mu, sent,
                  handled, inFlightAtClose, watchPath >>

\* SaveMetadata succeeds or fails; handleChanges returns, releasing e.mu, and
\* the loop is back at its select
LoopSaveMetadata(saveOk) ==
  /\ loopPc = "saving"
  /\ ~saveOk => faultsLeft > 0
  /\ faultsLeft' = IF saveOk THEN faultsLeft ELSE faultsLeft - 1
  /\ metaFile' = IF saveOk THEN SaveMetadata(meta) ELSE metaFile
  /\ batchErr' = ~saveOk
  /\ handled' = handled \cup {loopBatch.id}
  /\ loopBatch' = NoBatch
  /\ loopPc' = "select"
  /\ mu' = "none"
  /\ UNCHANGED << loopFrame, meta, chunkID, store, packVars, saveVars, watchVars,
                  changeChan, shutdownChan, wg, mainPc, sent, inFlightAtClose, watchPath >>

\* processChanges: the select takes the closed shutdownChan; the loop returns
\* and the deferred wg.Done runs
LoopReturn ==
  /\ loopPc = "select"
  /\ shutdownChan = "closed"
  /\ loopPc' = "done"
  /\ wg' = wg - 1
  /\ UNCHANGED << mainVars, packVars, saveVars, watchVars, changeChan, shutdownChan,
                  loopBatch, mainPc, mu, sent, handled, inFlightAtClose, watchPath >>

\* Shutdown: close(e.shutdownChan)
ShutdownClose ==
  /\ mainPc = "loop"
  /\ pc = "idle"
  /\ shutdownChan' = "closed"
  /\ mainPc' = "waiting"
  /\ inFlightAtClose' = loopBatch.id
  /\ UNCHANGED << mainVars, packVars, saveVars, watchVars, changeChan, wg, loopPc,
                  loopBatch, mu, sent, handled, watchPath >>

\* Shutdown: e.wg.Wait() returns, and Shutdown with it
ShutdownReturn ==
  /\ mainPc = "waiting"
  /\ WgWait(wg)
  /\ mainPc' = "returned"
  /\ UNCHANGED << mainVars, packVars, saveVars, watchVars, changeChan, shutdownChan,
                  wg, loopPc, loopBatch, mu, sent, handled, inFlightAtClose, watchPath >>

NextLoop ==
  \/ \E p \in LoopPaths, c \in LoopContents, t \in LoopMTimes : WriteFile(p, c, t)
  \/ \E p \in LoopPaths : RemoveFile(p)
  \/ MainDetectChanges
  \/ MainLock
  \/ MainHandleChanges
  \/ MainUnlock
  \/ \E changes \in WatchChanges(watchPath, LoopPaths) : ProcessChanges(changes)
  \/ LoopReceive
  \/ LoopLock
  \/ LoopHandleChanges
  \/ \E saveOk \in BOOLEAN : LoopSaveMetadata(saveOk)
  \/ LoopReturn
  \/ ShutdownClose
  \/ ShutdownReturn

SpecLoop == InitLoop /\ [][NextLoop]_vars

----------------------------------------------------------------------------
(* The watcher: handleEvents, processEvent, debouncedSend, the periodic   *)
(* scan and Close, against a clock                                        *)

\* time.AfterFunc(500*time.Millisecond, ...)
DebounceMs == 500

\* time.NewTicker(5 * time.Minute)
ScanPeriodMs == 5 * 60 * 1000

\* make(chan error, 10)
ErrorChanCap == 10

\* the step of the clock
TickMs == 250

\* how long the clock is followed, how many notifications and errors fsnotify
\* delivers: for the debounce, and for the loops
DebounceSpanMs == 1500
MaxNotes == 3
LoopSpanMs == 500
LoopNotes == 1
MaxErrors == 11

\* the paths fsnotify reports
WatchPaths == {"a.txt"}

\* the files of the watched directory a scan walks
ScanFiles == {"a.txt", "b.txt"}

\* fsnotify.Op: the flag sets of a notification
Ops == { {"Create"}, {"Write"}, {"Remove"}, {"Chmod"}, {"Rename"}, {"Write", "Chmod"} }

\* the switch of the function processEvent passes to debouncedSend ("": default,
\* the function returns)
Operation(op) ==
  IF "Create" \in op THEN "CREATE"
  ELSE IF "Write" \in op THEN "MODIFY"
  ELSE IF "Remove" \in op THEN "DELETE"
  ELSE ""

\* everything but the watcher
notWatchVars == << mainVars, packVars, saveVars, loopVars >>

\* NewWatcher, AddWatch, Start
InitWatcherWith(start, span, notes, errs) ==
  /\ InitWith(0, 0, 0, 0)
  /\ zoneIsUTC = FALSE
  /\ SideOff("watcher")
  /\ now = start
  /\ clockEnd = start + span
  /\ timers = <<>>
  /\ debouncer = [p \in WatchPaths |-> 0]
  /\ out = <<>>
  /\ ctxDone = FALSE
  /\ fsOpen = TRUE
  /\ evPc = "select"
  /\ errQ = 0
  /\ notesLeft = notes
  /\ errsLeft = errs
  /\ scanPc = "select"
  /\ scanLeft = {}
  /\ nextScan = ScanPeriodMs

\* the watcher just started
InitDebounce == InitWatcherWith(0, DebounceSpanMs, MaxNotes, 0)

\* the watcher a tick before the scan ticker's first tick, idle until then
InitWatchLoops == InitWatcherWith(ScanPeriodMs - TickMs, LoopSpanMs, LoopNotes, MaxErrors)

\* timer.Stop(): an armed timer is stopped; a timer that has fired is not
StopTimer(ts, i) ==
  IF i # 0 /\ ts[i].state = "armed" THEN [ts EXCEPT ![i].state = "stopped"] ELSE ts

\* debouncedSend: stop the timer of the path's entry, if there is one, and
\* put a new timer in the entry
DebouncedSend(ts, path, op, at) ==
  Append(StopTimer(ts, debouncer[path]),
         [path |-> path, op |-> Operation(op), at |-> at, state |-> "armed"])

\* time passes; a timer fires at its instant, a callback whose function has
\* returned takes debounceMu and deletes its entry without the clock moving,
\* and the ticker's tick is taken by a scan loop at its select
Tick ==
  /\ now < clockEnd
  /\ \A i \in DOMAIN timers :
       /\ timers[i].state = "armed" => now < timers[i].at + DebounceMs
       /\ timers[i].state # "returned"
  /\ ~(scanPc = "select" /\ now >= nextScan)
  /\ now' = now + TickMs
  /\ UNCHANGED << notWatchVars, clockEnd, timers, debouncer, out, ctxDone, fsOpen,
                  evPc, errQ, notesLeft, errsLeft, scanPc, scanLeft, nextScan >>

\* handleEvents takes a notification from fsnotify.Events: processEvent,
\* debouncedSend
HandleEvent(path, op) ==
  /\ evPc = "select"
  /\ fsOpen
  /\ notesLeft > 0
  /\ notesLeft' = notesLeft - 1
  /\ timers' = DebouncedSend(timers, path, op, now)
  /\ debouncer' = [debouncer EXCEPT ![path] = Len(timers) + 1]
  /\ UNCHANGED << notWatchVars, now, clockEnd, out, ctxDone, fsOpen, evPc, errQ,
                  errsLeft, scanPc, scanLeft, nextScan >>

\* a timer fires: its function runs to the select that sends the FileEvent, or
\* returns at once for flags that are none of create, write, remove
TimerFires(i) ==
  /\ i \in DOMAIN timers
  /\ timers[i].state = "armed"
  /\ now >= timers[i].at + DebounceMs
  /\ timers' = [timers EXCEPT ![i].state = IF timers[i].op = "" THEN "returned"
                                                                 ELSE "blocked"]
  /\ UNCHANGED << notWatchVars, now, clockEnd, debouncer, out, ctxDone, fsOpen, evPc,
                  errQ, notesLeft, errsLeft, scanPc, scanLeft, nextScan >>

\* the consumer receives from Changes(): the select of a fired timer's function
\* takes its send case (one of the ready cases, also when ctx is cancelled), and
\* the function returns
ReceiveChange(i) ==
  /\ i \in DOMAIN timers
  /\ timers[i].state = "blocked"
  /\ out' = Append(out, [timer |-> i, path |-> timers[i].path,
                         op |-> timers[i].op, afterCancel |-> ctxDone])
  /\ timers' = [timers EXCEPT ![i].state = "returned"]
  /\ UNCHANGED << notWatchVars, now, clockEnd, debouncer, ctxDone, fsOpen, evPc, errQ,
                  notesLeft, errsLeft, scanPc, scanLeft, nextScan >>

\* the select of a fired timer's function takes <-w.ctx.Done(), and the
\* function returns
TimerAbandons(i) ==
  /\ i \in DOMAIN timers
  /\ timers[i].state = "blocked"
  /\ ctxDone
  /\ timers' = [timers EXCEPT ![i].state = "returned"]
  /\ UNCHANGED << notWatchVars, now, clockEnd, debouncer, out, ctxDone, fsOpen, evPc,
                  errQ, notesLeft, errsLeft, scanPc, scanLeft, nextScan >>

\* the timer's callback, after its function: w.debounceMu.Lock(),
\* delete(w.debouncer, path), Unlock. The entry of the path is deleted
\* whichever timer it holds by now
TimerDeletesEntry(i) ==
  /\ i \in DOMAIN timers
  /\ timers[i].state = "returned"
  /\ timers' = [timers EXCEPT ![i].state = "done"]
  /\ debouncer' = [debouncer EXCEPT ![timers[i].path] = 0]
  /\ UNCHANGED << notWatchVars, now, clockEnd, out, ctxDone, fsOpen, evPc, errQ,
                  notesLeft, errsLeft, scanPc, scanLeft, nextScan >>

\* Close: w.cancel()
CloseCancel ==
  /\ ~ctxDone
  /\ ctxDone' = TRUE
  /\ UNCHANGED << notWatchVars, now, clockEnd, timers, debouncer, out, fsOpen, evPc,
                  errQ, notesLeft, errsLeft, scanPc, scanLeft, nextScan >>

\* Close, after w.cancel(): w.fsNotifyWatcher.Close()
CloseFsNotify ==
  /\ ctxDone
  /\ fsOpen
  /\ fsOpen' = FALSE
  /\ UNCHANGED << notWatchVars, now, clockEnd, timers, debouncer, out, ctxDone, evPc,
                  errQ, notesLeft, errsLeft, scanPc, scanLeft, nextScan >>

\* handleEvents returns: ctx is cancelled, or fsnotify's channels are closed
HandleEventsReturns ==
  /\ evPc = "select"
  /\ ctxDone \/ ~fsOpen
  /\ evPc' = "done"
  /\ UNCHANGED << notWatchVars, now, clockEnd, timers, debouncer, out, ctxDone,
                  fsOpen, errQ, notesLeft, errsLeft, scanPc, scanLeft, nextScan >>

\* handleEvents takes an error from fsnotify.Errors and goes to w.errorChan <- err
HandleError ==
  /\ evPc = "select"
  /\ fsOpen
  /\ errsLeft > 0
  /\ errsLeft' = errsLeft - 1
  /\ evPc' = "sendErr"
  /\ UNCHANGED << notWatchVars, now, clockEnd, timers, debouncer, out, ctxDone,
                  fsOpen, errQ, notesLeft, scanPc, scanLeft, nextScan >>

\* w.errorChan <- err completes when the channel has room
ForwardError ==
  /\ evPc = "sendErr"
  /\ errQ < ErrorChanCap
  /\ errQ' = errQ + 1
  /\ evPc' = "select"
  /\ UNCHANGED << notWatchVars, now, clockEnd, timers, debouncer, out, ctxDone,
                  fsOpen, notesLeft, errsLeft, scanPc, scanLeft, nextScan >>

\* the consumer receives from Errors()
ReceiveError ==
  /\ errQ > 0
  /\ errQ' = errQ - 1
  /\ UNCHANGED << notWatchVars, now, clockEnd, timers, debouncer, out, ctxDone,
                  fsOpen, evPc, notesLeft, errsLeft, scanPc, scanLeft, nextScan >>

\* periodicFullScan takes the ticker's tick: performFullScan starts its walk
ScanStarts ==
  /\ scanPc = "select"
  /\ now >= nextScan
  /\ scanPc' = "scanning"
  /\ scanLeft' = ScanFiles
  /\ nextScan' = nextScan + ScanPeriodMs
  /\ UNCHANGED << notWatchVars, now, clockEnd, timers, debouncer, out, ctxDone,
                  fsOpen, evPc, errQ, notesLeft, errsLeft >>

\* the consumer receives the SCAN event of the walk's next file
ScanSends(path) ==
  /\ scanPc = "scanning"
  /\ path \in scanLeft
  /\ out' = Append(out, [timer |-> 0, path |-> path, op |-> "SCAN",
                         afterCancel |-> ctxDone])
  /\ scanLeft' = scanLeft \ {path}
  /\ scanPc' = IF scanLeft' = {} THEN "select" ELSE "scanning"
  /\ UNCHANGED << notWatchVars, now, clockEnd, timers, debouncer, ctxDone, fsOpen,
                  evPc, errQ, notesLeft, errsLeft, nextScan >>

\* the walk's select takes <-w.ctx.Done(): the walk function returns an error,
\* the walk ends
ScanAborts ==
  /\ scanPc = "scanning"
  /\ ctxDone
  /\ scanLeft' = {}
  /\ scanPc' = "select"
  /\ UNCHANGED << notWatchVars, now, clockEnd, timers, debouncer, out, ctxDone,
                  fsOpen, evPc, errQ, notesLeft, errsLeft, nextScan >>

\* periodicFullScan returns
ScanLoopReturns ==
  /\ scanPc = "select"
  /\ ctxDone
  /\ scanPc' = "done"
  /\ UNCHANGED << notWatchVars, now, clockEnd, timers, debouncer, out, ctxDone,
                  fsOpen, evPc, errQ, notesLeft, errsLeft, scanLeft, nextScan >>

\* the first seconds of a watcher: notifications, timers and Close
NextDebounce ==
  \/ Tick
  \/ \E path \in WatchPaths, op \in Ops : HandleEvent(path, op)
  \/ \E i \in 1..MaxNotes : TimerFires(i)
  \/ \E i \in 1..MaxNotes : ReceiveChange(i)
  \/ \E i \in 1..MaxNotes : TimerAbandons(i)
  \/ \E i \in 1..MaxNotes : TimerDeletesEntry(i)
  \/ CloseCancel
  \/ CloseFsNotify
  \/ HandleEventsReturns
  \/ ScanLoopReturns

SpecDebounce == InitDebounce /\ [][NextDebounce]_vars

\* the watcher around a tick of the scan ticker, with errors from fsnotify
NextWatchLoops ==
  \/ NextDebounce
  \/ HandleError
  \/ ForwardError
  \/ ReceiveError
  \/ ScanStarts
  \/ \E path \in ScanFiles : ScanSends(path)
  \/ ScanAborts

SpecWatchLoops == InitWatchLoops /\ [][NextWatchLoops]_vars

\* the loops take the steps they can take, and Close goes on from w.cancel()
\* to w.fsNotifyWatcher.Close(); nothing obliges a consumer to receive from
\* Changes() or Errors()
WatchLoopsFairness ==
  /\ WF_vars(CloseFsNotify)
  /\ WF_vars(HandleEventsReturns)
  /\ WF_vars(ForwardError)
  /\ WF_vars(ScanAborts)
  /\ WF_vars(ScanLoopReturns)

SpecWatchLoopsFair == SpecWatchLoops /\ WatchLoopsFairness

----------------------------------------------------------------------------
(* Claims *)

\* the step is a run of handleChanges by PerformFullBackup (a restart also
\* takes the process from "detected" to "idle": it takes one from the fault
\* budget and leaves no batch error, which no run of handleChanges does)
HandleStep == mode = "watch" /\ pc = "detected" /\ pc' = "idle" /\ mode' = "watch"
                /\ (batchErr' \/ faultsLeft' = faultsLeft)

\* the step is the walk of DetectChanges
DetectStep == pc = "idle" /\ pc' = "detected"

\* C1: round trip. Every file that a successful batch packed and that is live
\* in the persisted catalog is restored with exactly the bytes that were packed,
\* also when its chunk holds other files of the batch.
C1_RoundTrip ==
  \A p \in DOMAIN diskPacked :
    (p \in attempted /\ p \notin restoreFailed)
      => (p \in DOMAIN target /\ target[p].content = diskPacked[p])

StrictlyIncreasing(chunks) ==
  \A i, j \in DOMAIN chunks : i < j => chunks[i].ID < chunks[j].ID

\* C2: in every catalog state, in memory and persisted, over batches and
\* restarts, the chunk list's IDs are strictly increasing (no ID occurs twice).
C2_ChunkIDsIncreasing ==
  /\ StrictlyIncreasing(meta.Chunks)
  /\ StrictlyIncreasing(metaFile.json.Chunks)

\* the chunk filenames some ChunkRecord names
NamedChunkFiles ==
  { meta.Chunks[i].Filename : i \in DOMAIN meta.Chunks }
    \cup { metaFile.json.Chunks[i].Filename : i \in DOMAIN metaFile.json.Chunks }

\* C3: a batch never changes the bytes stored under a chunk filename that a
\* ChunkRecord names: a chunk file, once written, is never written again.
C3_ChunkFilesNeverRewritten ==
  [][HandleStep =>
       \A name \in NamedChunkFiles \cap DOMAIN store :
         name \in DOMAIN store' /\ store'[name] = store[name]]_vars

\* C4: reconcile yields a CREATE event for every path the walk finds whose
\* FileRecord is tombstoned.
C4_TombstonedRecreatedIsCreate ==
  [][DetectStep =>
       \A p \in CurrentFiles(tree) :
         (p \in DOMAIN meta.Files /\ meta.Files[p].IsDeleted)
           => \E c \in pending' : c.Path = p /\ c.Operation = "CREATE"]_vars

\* the operations reconcile reports for path p in the step's walk
ReportedOps(p) == { c.Operation : c \in { d \in pending' : d.Path = p } }

\* the content hash or the modification instant on disk differs from the record
DiffersFromRecord(p) ==
  \/ meta.Files[p].Hash # CalculateDataHash(tree[p].content)
  \/ meta.Files[p].ModTime.t # tree[p].mtime

\* C5: for a path whose FileRecord is absent or live, reconcile reports at most
\* one event: CREATE iff the file is in the tree and has no record, MODIFY iff
\* it is in the tree, its record is live and hash or modification time differs,
\* DELETE iff its record is live and the file is not in the tree.
C5_ReconcileClassification ==
  [][DetectStep =>
       \A p \in Paths :
         (p \notin DOMAIN meta.Files \/ ~meta.Files[p].IsDeleted) =>
           /\ Cardinality({ c \in pending' : c.Path = p }) <= 1
           /\ "CREATE" \in ReportedOps(p)
                <=> (p \in CurrentFiles(tree) /\ p \notin DOMAIN meta.Files)
           /\ "MODIFY" \in ReportedOps(p)
                <=> (p \in CurrentFiles(tree) /\ p \in DOMAIN meta.Files
                       /\ DiffersFromRecord(p))
           /\ "DELETE" \in ReportedOps(p)
                <=> (p \in DOMAIN meta.Files /\ p \notin CurrentFiles(tree))]_vars

\* C6: when performFullBackup has applied the changes of its walk without error
\* and the tree is as the walk saw it, a second reconcile in the same process
\* reports no changes.
C6_SecondReconcileEmpty ==
  [][(HandleStep /\ ~batchErr' /\ pending = DetectChanges(meta.Files, tree))
       => DetectChanges(meta'.Files, tree') = {}]_vars

\* C6 case: a successful batch has recorded a live, packed file and the tree
\* reconciles to nothing.
C6_Witness ==
  /\ mode = "watch" /\ pc = "idle" /\ ~batchErr /\ metaFile.present
  /\ \E p \in DOMAIN meta.Files \cap CurrentFiles(tree) :
       ~meta.Files[p].IsDeleted /\ meta.Files[p].ChunkRefs # <<>>
  /\ DetectChanges(meta.Files, tree) = {}

\* C7: nothing of a batch that failed on a chunk write reaches the persisted
\* catalog: no save makes a persisted FileRecord equal to the record a failed
\* batch left in memory, nor persists a ChunkRecord a failed batch appended.
C7_FailedBatchNeverPersisted ==
  [][/\ \A p \in DOMAIN failedWrites' :
          (p \in DOMAIN metaFile'.json.Files
             /\ metaFile'.json.Files[p] = MarshalMeta(meta').Files[p]
             /\ meta'.Files[p] = failedWrites'[p])
            => (p \in DOMAIN metaFile.json.Files
                  /\ metaFile.json.Files[p] = metaFile'.json.Files[p])
     /\ \A i \in failedChunks' :
          i <= Len(metaFile'.json.Chunks) => i <= Len(metaFile.json.Chunks)]_vars

\* C8: a file reported CREATE or MODIFY that the packer skipped is reported
\* again by the next reconcile at which it is readable (until a batch packs it
\* or tombstones it).
C8_SkippedFileReportedAgain ==
  (mode = "watch" /\ pc = "idle") =>
    \A p \in skipped \cap CurrentFiles(tree) :
      \E c \in DetectChanges(meta.Files, tree) :
        c.Path = p /\ c.Operation \in {"CREATE", "MODIFY"}

\* the chunk files of live file p named by the persisted catalog are in the store
ChunksPresent(p) ==
  \A i \in DOMAIN metaFile.json.Files[p].ChunkRefs :
    \A k \in DOMAIN metaFile.json.Chunks :
      metaFile.json.Chunks[k].ID = metaFile.json.Files[p].ChunkRefs[i]
        => metaFile.json.Chunks[k].Filename \in DOMAIN store

\* C9: a missing chunk file does not abort restoreAll: it returns without error
\* and every live file whose chunk files are all present is still processed.
C9_MissingChunkDoesNotAbort ==
  /\ ~restoreErr
  /\ \A p \in restoreLive :
       ChunksPresent(p) => (p \in attempted)

\* C10: when validateBackup passes, restoreAll returns success and has
\* attempted every live file, whatever files failed on the way.
C10_RestoreAllContinues ==
  restoreValid => (~restoreErr /\ attempted = restoreLive)

\* C10 case: a validated restore in which one file failed and another was
\* restored.
C10_Witness ==
  /\ restoreValid
  /\ restoreFailed # {}
  /\ (attempted \ restoreFailed) # {}
  /\ (attempted \ restoreFailed) \subseteq DOMAIN target

\* the events reconcile reports for path p in the step's walk
ReportedFor(p) == { c \in pending' : c.Path = p }

\* the persisted catalog holds a tombstoned record for p
PersistedTombstone(file, p) ==
  file.present /\ p \in DOMAIN file.json.Files /\ file.json.Files[p].IsDeleted

\* the walk reports exactly one event, a DELETE, for every live record whose
\* path is gone from the tree
OneDeleteReported ==
  DetectStep =>
    \A p \in DOMAIN meta.Files :
      (~meta.Files[p].IsDeleted /\ p \notin DOMAIN tree) =>
        /\ Cardinality(ReportedFor(p)) = 1
        /\ \A c \in ReportedFor(p) : c.Operation = "DELETE"

\* a tombstone on disk stays, and a restoreAll run on it writes no file for
\* its path
TombstoneNeverRestored ==
  \A p \in Paths :
    PersistedTombstone(metaFile, p) =>
      /\ PersistedTombstone(metaFile', p)
      /\ p \notin DOMAIN target'

PackPos(p) == CHOOSE k \in DOMAIN packFiles : packFiles[k] = p

\* the paths placed in chunk i, in placement order
PlacedPaths(i) == [j \in DOMAIN packOut[i].Files |-> packOut[i].Files[j].Path]

RECURSIVE AllPlaced(_)
AllPlaced(i) == IF i > Len(packOut) THEN <<>> ELSE PlacedPaths(i) \o AllPlaced(i + 1)

\* the input paths that can be read
PackReadable(p) == p \in DOMAIN packFs /\ packFs[p].readable

\* the readable paths of the input list
PackListed(p) == PackReadable(p) /\ \E k \in DOMAIN packFiles : packFiles[k] = p

\* C18: every chunk the packer returns is within the chunk-size bound or holds
\* exactly one file; a chunk is followed by another only where a next file of
\* the list would have exceeded the bound; every readable file is placed once,
\* in list order; files of 2 MiB and 4 MiB yield two chunks.
C18_ChunkWithinBoundOrSingleFile ==
  packPc = "packed" =>
    /\ \A i \in DOMAIN packOut :
         ByteLen(packOut[i].Data) <= ChunkSize \/ Len(packOut[i].Files) = 1
    /\ \A i \in DOMAIN packOut :
         i < Len(packOut) =>
           \E k \in DOMAIN packFiles :
             /\ k > PackPos(packOut[i].Files[Len(packOut[i].Files)].Path)
             /\ k <= PackPos(packOut[i + 1].Files[1].Path)
             /\ packFiles[k] \in DOMAIN packFs
             /\ ByteLen(packOut[i].Data) + ByteLen(packFs[packFiles[k]].content)
                  > ChunkSize
    /\ AllPlaced(1) = SelectSeq(packFiles, PackReadable)
    /\ \A i \in DOMAIN packOut : \A j \in DOMAIN packOut[i].Files :
         packOut[i].Files[j].Size = ByteLen(packFs[packOut[i].Files[j].Path].content)
    /\ ({ ByteLen(packFs[p].content) : p \in { q \in PackPaths : PackListed(q) } }
          = { 2 * BlockBytes, 4 * BlockBytes }
        /\ Len(SelectSeq(packFiles, PackReadable)) = 2)
         => Len(packOut) = 2

\* C18 case: files of 2 MiB and 4 MiB were packed into two chunks.
C18_Witness ==
  /\ packPc = "packed"
  /\ Len(packFiles) = 2
  /\ Len(packOut) = 2
  /\ { ByteLen(packOut[i].Data) : i \in DOMAIN packOut }
       = { 2 * BlockBytes, 4 * BlockBytes }

\* C19: on a chunk of the packer, extract of a recorded range returns the file's
\* bytes; a range that ends beyond the chunk fails with the boundary error; when
\* one byte of the chunk is changed, extract of at least one recorded range fails
\* with the integrity error.
C19_ExtractVerifies ==
  /\ exRes.kind = "recorded" =>
       \A j \in DOMAIN exRes.results :
         /\ exRes.results[j].ok
         /\ exRes.results[j].data = packFs[packOut[exRes.chunk].Files[j].Path].content
  /\ exRes.kind = "beyond" =>
       \A j \in DOMAIN exRes.results :
         ~exRes.results[j].ok /\ exRes.results[j].err = "boundary"
  /\ exRes.kind = "changed" =>
       \E j \in DOMAIN exRes.results :
         ~exRes.results[j].ok /\ exRes.results[j].err = "hash"

\* C19 case: a byte of a chunk of two files was changed; one range fails the
\* integrity check and the other is still extracted.
C19_Witness ==
  /\ exRes.kind = "changed"
  /\ \E j, k \in DOMAIN exRes.results :
       exRes.results[j].err = "hash" /\ exRes.results[k].ok

\* what the catalog file at its final name holds
FinalFile(disk) ==
  IF MetadataPath \in DOMAIN disk THEN disk[MetadataPath]
  ELSE [json |-> MarshalMeta(NewManager), written |-> 0 - 1]

\* C20: at every point of a save, crashes included, the file at the final name
\* is absent or a whole document; a step changes it only to the whole document
\* being saved; a reader never fails on a partial document.
C20_AtomicSave ==
  [][/\ MetadataPath \in DOMAIN saveDisk' => Complete(saveDisk', MetadataPath)
     /\ \/ FinalFile(saveDisk') = FinalFile(saveDisk)
        \/ /\ savePc = "written"
           /\ FinalFile(saveDisk') = [json |-> saveData, written |-> WriteParts]
     /\ loaded' # "error"]_vars

\* C20 case: a save crashed with the temp file half written; the final name
\* still holds the whole previous catalog and a reader loads it.
C20_Witness ==
  /\ savePc = "crashed"
  /\ TempPath \in DOMAIN saveDisk
  /\ saveDisk[TempPath].written > 0
  /\ ~Complete(saveDisk, TempPath)
  /\ Complete(saveDisk, MetadataPath)
  /\ saveDisk[MetadataPath].json # saveDisk[TempPath].json
  /\ loaded = "ok"

\* C17: when Shutdown has returned, the processing loop has returned too: it is
\* not inside handleChanges, and the batch it was handling when Shutdown began
\* has run to its catalog save or its error exit.
C17_ShutdownWaitsForBatch ==
  mainPc = "returned" =>
    /\ loopPc = "done"
    /\ loopBatch = NoBatch
    /\ inFlightAtClose # 0 => inFlightAtClose \in handled

\* C17 case: Shutdown began while a batch was in handleChanges and has returned.
C17_Witness ==
  /\ mainPc = "returned"
  /\ inFlightAtClose # 0
  /\ inFlightAtClose \in handled

\* the notifications for path p, by index
NotesFor(p) == { i \in DOMAIN timers : timers[i].path = p }

\* notification i is the last of its burst: no later notification for its path
\* arrives less than 500 ms after it
LastOfBurst(i) ==
  \A j \in NotesFor(timers[i].path) :
    j > i => timers[j].at - timers[i].at >= DebounceMs

\* path p has had create and write notifications only, and no two of them
\* exactly 500 ms apart
CreateWriteBursts(p) ==
  /\ \A i \in NotesFor(p) : timers[i].op \in {"CREATE", "MODIFY"}
  /\ \A i, j \in NotesFor(p) : timers[j].at - timers[i].at # DebounceMs

\* the positions in out of the events of path p that come from notifications
EventsFor(p) == { k \in DOMAIN out : out[k].path = p /\ out[k].timer # 0 }

\* no timer is armed or waiting to send
Quiet == \A i \in DOMAIN timers : timers[i].state \in {"stopped", "done"}

\* C12: once every timer is through and the watcher was not closed, a path that
\* had create and write notifications only has exactly one ChangeEvent per
\* burst (notifications less than 500 ms apart), that of the burst's last
\* notification, with its kind.
C12_OneEventPerBurst ==
  (Quiet /\ ~ctxDone) =>
    \A p \in WatchPaths :
      CreateWriteBursts(p) =>
        /\ { out[k].timer : k \in EventsFor(p) } = { i \in NotesFor(p) : LastOfBurst(i) }
        /\ Cardinality(EventsFor(p)) = Cardinality({ i \in NotesFor(p) : LastOfBurst(i) })
        /\ \A k \in EventsFor(p) : out[k].op = timers[out[k].timer].op

\* C13: a remove notification does not wait for the debounce timer: its DELETE
\* event is offered at the instant the notification is received, so no timer of
\* a remove notification is still armed at a later instant.
C13_DeleteNotDebounced ==
  \A i \in DOMAIN timers :
    (timers[i].op = "DELETE" /\ timers[i].state = "armed") => now = timers[i].at

\* the event of timer i is pending: the timer is armed for a create, write or
\* remove notification
Pending(ts, i) == ts[i].state = "armed" /\ ts[i].op # ""

\* C14: a notification whose flags are none of create, write, remove emits no
\* event and leaves every pending event pending.
C14_UnrecognizedIgnored ==
  [][ (Len(timers') = Len(timers) + 1 /\ timers'[Len(timers')].op = "")
        => /\ \A i \in DOMAIN timers : Pending(timers, i) => Pending(timers', i)
           /\ out' = out ]_vars

\* C15: no ChangeEvent of a debounce timer is received from Changes() after
\* the cancellation.
C15_NoEventAfterCancel ==
  \A k \in DOMAIN out : out[k].timer # 0 => ~out[k].afterCancel

\* C16: once the watcher's context is cancelled, handleEvents and
\* periodicFullScan both eventually return.
C16_LoopsTerminate == ctxDone ~> (evPc = "done" /\ scanPc = "done")

\* the armed timers of path p
ArmedFor(p) == { i \in NotesFor(p) : timers[i].state = "armed" }

\* C25: a path has at most one armed timer, and the path's entry of the
\* debounce table is that timer.
C25_OneArmedTimerPerPath ==
  \A p \in WatchPaths :
    /\ Cardinality(ArmedFor(p)) <= 1
    /\ \A i \in ArmedFor(p) : debouncer[p] = i

\* C26: when Shutdown has returned, every batch ProcessChanges accepted (it
\* returned nil for it) has been handled by the processing loop.
C26_AcceptedBatchesHandled ==
  mainPc = "returned" => \A id \in 1..sent : id \in handled

\* every chunk ID in a FileRecord's ChunkRefs is the ID of a ChunkRecord of m
RefsResolve(m) ==
  \A p \in DOMAIN m.Files :
    \A k \in DOMAIN m.Files[p].ChunkRefs :
      \E i \in DOMAIN m.Chunks : m.Chunks[i].ID = m.Files[p].ChunkRefs[k]

\* C22: in the in-memory catalog and in metadata.json, every chunk reference
\* of a FileRecord is the ID of a ChunkRecord of the same catalog.
C22_ChunkRefsResolve ==
  /\ RefsResolve(meta)
  /\ metaFile.present => RefsResolve(metaFile.json)

\* C22 case: the persisted catalog holds a FileRecord with a chunk reference,
\* and the in-memory catalog holds one too.
C22_Witness ==
  /\ metaFile.present
  /\ \E p \in DOMAIN metaFile.json.Files : metaFile.json.Files[p].ChunkRefs # <<>>
  /\ \E p \in DOMAIN meta.Files : meta.Files[p].ChunkRefs # <<>>

\* the processing loop's handleChanges applies its batch in this step
LoopHandleStep == loopPc = "handling" /\ loopPc' = "saving"

\* the file at path p exists and the catalog has no live record of its bytes
NotBackedUp(p) ==
  /\ p \in CurrentFiles(tree)
  /\ \/ p \notin DOMAIN meta.Files
     \/ meta.Files[p].IsDeleted
     \/ meta.Files[p].Hash # CalculateDataHash(tree[p].content)

\* the IDs of the ChunkRecords the step appends to the catalog
NewChunkIDs ==
  { meta'.Chunks[i].ID : i \in (Len(meta.Chunks) + 1) .. Len(meta'.Chunks) }

\* the operations of the watcher's events for the file at path p (below the
\* watched directory) in the batch the processing loop is applying
EventOpsFor(p) ==
  { c.Operation : c \in { d \in loopBatch.changes :
                            d.Path = EventName(watchPath, p) } }

\* C21: when the processing loop applies a watcher's CREATE or MODIFY event for
\* an existing file whose bytes are not backed up, the file's record gets a
\* reference to a chunk written in that step; when it applies a watcher's
\* DELETE event for a tracked file, the file's record is tombstoned.
C21_WatchEventsBackedUp ==
  [][LoopHandleStep =>
       \A p \in LoopPaths :
         /\ (EventOpsFor(p) \cap {"CREATE", "MODIFY"} # {} /\ NotBackedUp(p)) =>
              /\ p \in DOMAIN meta'.Files
              /\ \E k \in DOMAIN meta'.Files[p].ChunkRefs :
                   meta'.Files[p].ChunkRefs[k] \in NewChunkIDs
         /\ ("DELETE" \in EventOpsFor(p) /\ p \in DOMAIN meta.Files) =>
              meta'.Files[p].IsDeleted]_vars

\* C23: no step removes a path from the catalog's file map; a DELETE event the
\* processing loop applies sets IsDeleted on the record of a tracked path and
\* changes nothing else in the catalog, the packer's counter or the chunk
\* files, and changes nothing at all for an untracked path.
C23_DeleteOnlyTombstones ==
  [][/\ DOMAIN meta.Files \subseteq DOMAIN meta'.Files
     /\ LoopHandleStep =>
          \A c \in loopBatch.changes :
            c.Operation = "DELETE" =>
              /\ meta' = IF c.Path \in DOMAIN meta.Files
                           THEN [meta EXCEPT !.Files[c.Path].IsDeleted = TRUE]
                           ELSE meta
              /\ store' = store
              /\ chunkID' = chunkID]_vars

\* C23 case: the processing loop has applied a DELETE event for a file that
\* was packed and then removed; its record is tombstoned and keeps its
\* chunk references.
C23_Witness ==
  /\ loopPc = "saving"
  /\ \E c \in loopBatch.changes :
       /\ c.Operation = "DELETE"
       /\ c.Path \notin DOMAIN tree
       /\ c.Path \in DOMAIN meta.Files
       /\ meta.Files[c.Path].IsDeleted
       /\ meta.Files[c.Path].ChunkRefs # <<>>

\* C24: the processing loop and PerformFullBackup on runBackup's task are
\* never both between the start of handleChanges' grouping and the end of
\* its catalog save.
C24_OneBatchAtATime ==
  ~(loopPc \in {"handling", "saving"} /\ mainPc = "batch")

\* C24 case: the processing loop is held at e.mu.Lock while PerformFullBackup
\* applies its batch.
C24_Witness ==
  /\ loopPc = "locking"
  /\ mainPc = "batch"
  /\ pc = "detected"

====
